---- MODULE Spec2Model ----
(***************************************************************************)
(* Hotplug driver registry of libusb (libusb/hotplug.c).                   *)
(*                                                                         *)
(* The model follows the C source function by function.  A thread is       *)
(* either idle or inside one API call; the position inside the call is the *)
(* field pc of its frame:                                                  *)
(*   "lock"    libusb_hotplug_register before usbi_mutex_lock (line 169)   *)
(*   "mlock"   before the usbi_mutex_lock that opens a list walk           *)
(*             (lines 116, 195, 211)                                       *)
(*   "cb"      inside a user callback, driver->connect (line 72) or        *)
(*             driver->disconnect (lines 90, 105)                          *)
(*   "blocked" inside a callback that called libusb_hotplug_register or    *)
(*             libusb_hotplug_deregister and waits in usbi_mutex_lock      *)
(*   "ret"     the API call has returned                                   *)
(* Everything a walk does between two callbacks happens with the mutex     *)
(* held, so it is one step.                                                *)
(*                                                                         *)
(* usbi_mutex_lock is a plain mutual-exclusion lock without recursion (a   *)
(* default pthread mutex; "a simple mutual-exclusion lock" in section 5 of *)
(* the specification): a thread locking the mutex it already owns never    *)
(* returns.  malloc in usbi_hotplug_connect_device is taken to succeed.    *)
(* ctx->usb_devs belongs to the enumeration backend; the backend is taken  *)
(* not to change it while a register call replays it: its content is an    *)
(* input of the call.  Spec makes the API calls one at a time (Quiet);    *)
(* SpecConc interleaves the steps of calls made on three threads.          *)
(* A struct hotplug_list node is named by its place in the list; the place *)
(* a callback record carries is the place at the time the walk took the    *)
(* mutex (frame field pre: the list when the call started, then the list   *)
(* as the call found it each time it took the mutex; for line 169, with    *)
(* the new node in).                                                       *)
(***************************************************************************)
EXTENDS Integers, Sequences, FiniteSets, TLC

(* ---------------------------- bounds ----------------------------------- *)
MaxNodes == 2        \* struct hotplug_list nodes in ctx->hotplug_drivers
MaxAttached == 2     \* struct device_list nodes per hotplug_list node

(* ------------------------ program constants ---------------------------- *)
LIBUSB_HOTPLUG_MATCH_ANY == -1
LIBUSB_HOTPLUG_ENUMERATE == 1
LIBUSB_SUCCESS == "LIBUSB_SUCCESS"
LIBUSB_ERROR_INVALID_PARAM == "LIBUSB_ERROR_INVALID_PARAM"
LIBUSB_ERROR_NO_MEM == "LIBUSB_ERROR_NO_MEM"
LIBUSB_ERROR_NOT_SUPPORTED == "LIBUSB_ERROR_NOT_SUPPORTED"

ARRIVED == "ARRIVED"
LEFT == "LEFT"

(* ------------------------------ universe ------------------------------- *)
EventThread == "ev"
Clients == {"c1"}                   \* the client thread of Spec
ConcurrentClients == {"c1", "c2"}   \* the client threads of SpecConc
Threads == {EventThread} \cup ConcurrentClients
NoThread == "none"

Devices == {"A", "B"}
DeviceOrder == <<"A", "B">>   \* the order in which ctx->usb_devs links them
NoDevice == "-"
NULL == 0
DriverIds == 1..3

VARIABLES
    has_hotplug,       \* libusb_has_capability(LIBUSB_CAP_HAS_HOTPLUG)
    driver_table,      \* the libusb_hotplug structs the clients own
    device_descriptor, \* dev->device_descriptor of every libusb_device
    hotplug_drivers,   \* ctx->hotplug_drivers, first element = head->next
    lock,              \* owner of ctx->hotplug_drivers_lock
    frame              \* per thread: the API call it is in

vars == <<has_hotplug, driver_table, device_descriptor, hotplug_drivers,
          lock, frame>>

env == <<has_hotplug, driver_table, device_descriptor>>

(* ------------------------------ helpers -------------------------------- *)
Min(S) == CHOOSE x \in S : \A y \in S : x <= y

RECURSIVE Count(_, _)
Count(s, x) ==
    IF s = <<>> THEN 0
    ELSE (IF Head(s) = x THEN 1 ELSE 0) + Count(Tail(s), x)

Range(s) == {s[i] : i \in 1..Len(s)}

\* (~mask & v) != 0 for a 32 bit two's complement int v and mask = 2^bits - 1:
\* a negative v has its sign bit outside the mask
HighBitsSet(v, bits) == v < 0 \/ v \div (2 ^ bits) # 0

\* (flags & bit) != 0 for a power of two bit; \div rounds down, as the
\* arithmetic shift of a two's complement int does
FlagSet(flags, bit) == (flags \div bit) % 2 = 1

(* ------------------------------- lists --------------------------------- *)
\* struct hotplug_list after lines 158-165
NewNode(d) == [driver |-> d, device_list |-> <<>>]

\* list_add(entry, head): the entry becomes head->next
list_add(list, entry) == <<entry>> \o list

\* list_del of the i-th element of the list
list_del(list, i) ==
    SubSeq(list, 1, i - 1) \o SubSeq(list, i + 1, Len(list))

\* index of the first element equal to x at or after position i, 0 if none
FirstFrom(list, x, i) ==
    IF \E j \in i..Len(list) : list[j] = x
    THEN Min({j \in i..Len(list) : list[j] = x})
    ELSE 0

(* ------------------------------ frames --------------------------------- *)
\* a callback the walk entered: kind is "connect" or "disconnect", node the
\* place of the entry, r the value the callback returned once done
NoCall == [kind |-> "none", node |-> 0, dev |-> NoDevice, done |-> FALSE,
           r |-> 0]
Call(kind, n, dev) ==
    [kind |-> kind, node |-> n, dev |-> dev, done |-> FALSE, r |-> 0]

Idle == [op |-> "idle", pc |-> "idle", driver |-> NULL, event |-> "NONE",
         usb_devs |-> {}, enum |-> <<>>, it |-> 1, k |-> 1, di |-> 1,
         calls |-> <<>>, pre |-> <<>>, ret |-> LIBUSB_SUCCESS,
         inner |-> "none"]

\* the last callback the frame entered
CurCall(f) == f.calls[Len(f.calls)]

\* API calls are made one at a time: no thread is inside the library
Quiet == \A u \in Threads : frame[u].pc = "idle"

(* --------------------------- the filter -------------------------------- *)
\* the check for sane values with the mask of vid and pid, ~0xffff, used for
\* dev_class too
SaneValuesClassMask16(d) ==
    /\ d # NULL
    /\ ~(LIBUSB_HOTPLUG_MATCH_ANY # driver_table[d].vid
         /\ HighBitsSet(driver_table[d].vid, 16))
    /\ ~(LIBUSB_HOTPLUG_MATCH_ANY # driver_table[d].pid
         /\ HighBitsSet(driver_table[d].pid, 16))
    /\ ~(LIBUSB_HOTPLUG_MATCH_ANY # driver_table[d].dev_class
         /\ HighBitsSet(driver_table[d].dev_class, 16))

\* libusb_hotplug_register, "check for sane values"
SaneValues(d) ==
    /\ d # NULL
    /\ ~(LIBUSB_HOTPLUG_MATCH_ANY # driver_table[d].vid
         /\ HighBitsSet(driver_table[d].vid, 16))
    /\ ~(LIBUSB_HOTPLUG_MATCH_ANY # driver_table[d].pid
         /\ HighBitsSet(driver_table[d].pid, 16))
    /\ ~(LIBUSB_HOTPLUG_MATCH_ANY # driver_table[d].dev_class
         /\ HighBitsSet(driver_table[d].dev_class, 8))

\* libusb_hotplug_register that does not ask for the hotplug capability
register_checks_without_capability(d) ==
    IF ~SaneValues(d) THEN LIBUSB_ERROR_INVALID_PARAM
    ELSE LIBUSB_SUCCESS

\* libusb_hotplug_register, lines 144-155: the error the call returns before
\* it allocates, LIBUSB_SUCCESS if it goes on to malloc
register_checks(d) ==
    IF ~has_hotplug THEN LIBUSB_ERROR_NOT_SUPPORTED
    ELSE IF ~SaneValues(d) THEN LIBUSB_ERROR_INVALID_PARAM
    ELSE LIBUSB_SUCCESS

\* usbi_hotplug_match_driver without its test of dev_class
match_driver_without_class(d, dsc) ==
    IF d.vid # LIBUSB_HOTPLUG_MATCH_ANY /\ d.vid # dsc.idVendor THEN FALSE
    ELSE IF d.pid # LIBUSB_HOTPLUG_MATCH_ANY /\ d.pid # dsc.idProduct
         THEN FALSE
    ELSE TRUE

\* usbi_hotplug_match_driver up to the call of driver->connect: FALSE where
\* the function returns 1 without calling it
usbi_hotplug_match_driver(d, dsc) ==
    IF d.vid # LIBUSB_HOTPLUG_MATCH_ANY /\ d.vid # dsc.idVendor THEN FALSE
    ELSE IF d.pid # LIBUSB_HOTPLUG_MATCH_ANY /\ d.pid # dsc.idProduct
         THEN FALSE
    ELSE IF d.dev_class # LIBUSB_HOTPLUG_MATCH_ANY
            /\ d.dev_class # dsc.bDeviceClass
         THEN FALSE
    ELSE TRUE

\* usbi_hotplug_connect_device that allocates the node and never links it
connect_device_without_list_add(device_list, device) == device_list

\* usbi_hotplug_connect_device: a new device_list node right after the head
usbi_hotplug_connect_device(device_list, device) ==
    list_add(device_list, device)

\* the devices the replay loop of libusb_hotplug_register visits when
\* ctx->usb_devs holds the devices devs
ReplayDevices(d, devs) ==
    IF FlagSet(driver_table[d].flags, LIBUSB_HOTPLUG_ENUMERATE)
    THEN SelectSeq(DeviceOrder, LAMBDA x : x \in devs)
    ELSE <<>>

(* ---------------------------- list walks ------------------------------- *)
\* libusb_hotplug_deregister without the test of it->driver
DeregisterSelectsEvery(it, driver) == TRUE

\* libusb_hotplug_deregister: the entries it removes ("continue" otherwise)
DeregisterSelects(it, driver) == it.driver = driver

\* usbi_hotplug_disconnect_all that empties the list at the first node
disconnect_all_del_every(device_list) == <<>>

\* usbi_hotplug_disconnect_all after the callback: list_del(device_node) and
\* free(device_node) of the first node
disconnect_all_del(device_list) == Tail(device_list)

\* Runs the list_for_each_entry_safe loop of the frame's function from the
\* entry hd[f.it] up to the next callback it calls, or to the end of the
\* list.  hd is ctx->hotplug_drivers as the loop leaves it.
RECURSIVE Walk(_, _)
Walk(f, hd) ==
    IF f.it > Len(hd)
    THEN [f |-> f, hd |-> hd, cb |-> NoCall]
    ELSE
      LET it == hd[f.it]
          nxt == [f EXCEPT !.it = @ + 1, !.k = @ + 1, !.di = 1]
      IN
      CASE f.op \in {"match", "register"} /\ f.event = ARRIVED ->
             IF usbi_hotplug_match_driver(driver_table[it.driver],
                                          device_descriptor[Head(f.enum)])
             THEN [f |-> f, hd |-> hd,
                   cb |-> Call("connect", f.k, Head(f.enum))]
             ELSE Walk(nxt, hd)
        [] f.op \in {"match", "register"} /\ f.event = LEFT ->
             \* usbi_hotplug_disconnect_device
             LET j == FirstFrom(it.device_list, Head(f.enum), f.di)
             IN IF j # 0
                THEN [f |-> [f EXCEPT !.di = j], hd |-> hd,
                      cb |-> Call("disconnect", f.k, Head(f.enum))]
                ELSE Walk(nxt, hd)
        [] f.op = "deregister" ->
             IF ~DeregisterSelects(it, f.driver) THEN Walk(nxt, hd)
             ELSE IF it.device_list # <<>>
             THEN \* usbi_hotplug_disconnect_all
                  [f |-> f, hd |-> hd,
                   cb |-> Call("disconnect", f.k, Head(it.device_list))]
             ELSE \* list_del(it); free(it)
                  Walk([f EXCEPT !.k = @ + 1, !.di = 1], list_del(hd, f.it))
        [] f.op = "deregister_all" ->
             IF it.device_list # <<>>
             THEN [f |-> f, hd |-> hd,
                   cb |-> Call("disconnect", f.k, Head(it.device_list))]
             ELSE Walk(nxt, hd)

\* the loop body of usbi_hotplug_match without "if (!error)": the device is
\* linked whatever connect returned
AfterCallbackIgnoringError(f, hd, c, r) ==
    CASE c.kind = "connect" ->
           [hd EXCEPT ![f.it].device_list =
                          usbi_hotplug_connect_device(@, c.dev)]
      [] c.kind = "disconnect" /\ f.op \in {"match", "register"} ->
           [hd EXCEPT ![f.it].device_list = list_del(@, f.di)]
      [] OTHER ->
           [hd EXCEPT ![f.it].device_list = disconnect_all_del(@)]

\* What the loop body does to the list after the callback c returned r
AfterCallback(f, hd, c, r) ==
    CASE c.kind = "connect" ->
           IF r = 0
           THEN [hd EXCEPT ![f.it].device_list =
                               usbi_hotplug_connect_device(@, c.dev)]
           ELSE hd
      [] c.kind = "disconnect" /\ f.op \in {"match", "register"} ->
           \* usbi_hotplug_disconnect_device: list_del(device_node); free
           [hd EXCEPT ![f.it].device_list = list_del(@, f.di)]
      [] OTHER ->
           \* usbi_hotplug_disconnect_all: list_del(device_node); free
           [hd EXCEPT ![f.it].device_list = disconnect_all_del(@)]

\* the frame after the callback returned
FrameAfterCallback(f, c) ==
    IF c.kind = "connect"
    THEN [f EXCEPT !.it = @ + 1, !.k = @ + 1, !.di = 1]
    ELSE f

\* Continue the walk of thread t and store what it leaves
Resume(t, f, hd) ==
    LET w == Walk(f, hd)
        g == IF w.cb.kind # "none"
             THEN [w.f EXCEPT !.pc = "cb", !.calls = Append(@, w.cb)]
             ELSE \* usbi_mutex_unlock, and the next device of the replay
                  IF Len(w.f.enum) > 1
                  THEN [w.f EXCEPT !.pc = "mlock", !.enum = Tail(@)]
                  ELSE [w.f EXCEPT !.pc = "ret"]
    IN /\ hotplug_drivers' = w.hd
       /\ lock' = IF w.cb.kind # "none" THEN t ELSE NoThread
       /\ frame' = [frame EXCEPT ![t] = g]

(* ------------------------------- bounds -------------------------------- *)
\* every entry has room for k more device_list nodes
Room(k) ==
    \A i \in 1..Len(hotplug_drivers) :
        Len(hotplug_drivers[i].device_list) + k <= MaxAttached

(* ------------------------------ actions -------------------------------- *)
\* thread t calls usbi_hotplug_match(ctx, dev, event)
CallMatch(t, dev, event) ==
    /\ frame[t].pc = "idle"
    /\ event = ARRIVED => Room(1)
    /\ frame' = [frame EXCEPT ![t] =
                    [Idle EXCEPT !.op = "match", !.pc = "mlock",
                                 !.event = event, !.enum = <<dev>>]]
    /\ UNCHANGED <<env, hotplug_drivers, lock>>

\* thread t calls libusb_hotplug_register(ctx, d) while ctx->usb_devs holds
\* the devices devs: the call up to usbi_mutex_lock
CallRegister(t, d, devs) ==
    /\ frame[t].pc = "idle"
    /\ LET f == [Idle EXCEPT !.op = "register", !.pc = "ret", !.driver = d,
                             !.usb_devs = devs, !.pre = hotplug_drivers]
       IN IF register_checks(d) # LIBUSB_SUCCESS
          THEN frame' = [frame EXCEPT ![t] =
                   [f EXCEPT !.ret = register_checks(d)]]
          ELSE \/ \* malloc returns NULL
                  frame' = [frame EXCEPT ![t] =
                      [f EXCEPT !.ret = LIBUSB_ERROR_NO_MEM]]
               \/ /\ Len(hotplug_drivers) < MaxNodes
                  /\ Room(Len(ReplayDevices(d, devs)))
                  /\ Len(ReplayDevices(d, devs)) <= MaxAttached
                  /\ frame' = [frame EXCEPT ![t] = [f EXCEPT !.pc = "lock"]]
    /\ UNCHANGED <<env, hotplug_drivers, lock>>

\* lines 169-177: the node enters the list, the replay starts
RegisterAdd(t) ==
    /\ frame[t].op = "register" /\ frame[t].pc = "lock"
    /\ lock = NoThread
    /\ hotplug_drivers' = list_add(hotplug_drivers, NewNode(frame[t].driver))
    /\ LET devs == ReplayDevices(frame[t].driver, frame[t].usb_devs)
           f == [frame[t] EXCEPT !.pre = hotplug_drivers']
           g == IF devs # <<>>
                THEN [f EXCEPT !.pc = "mlock", !.event = ARRIVED,
                               !.enum = devs]
                ELSE [f EXCEPT !.pc = "ret"]
       IN frame' = [frame EXCEPT ![t] = g]
    /\ UNCHANGED <<env, lock>>

\* thread t calls libusb_hotplug_deregister(ctx, d): the call up to
\* usbi_mutex_lock
CallDeregister(t, d) ==
    /\ frame[t].pc = "idle"
    /\ frame' = [frame EXCEPT ![t] =
          IF ~has_hotplug
          THEN [Idle EXCEPT !.op = "deregister", !.pc = "ret", !.driver = d,
                            !.pre = hotplug_drivers]
          ELSE [Idle EXCEPT !.op = "deregister", !.pc = "mlock",
                            !.driver = d, !.pre = hotplug_drivers]]
    /\ UNCHANGED <<env, hotplug_drivers, lock>>

\* thread t calls usbi_hotplug_deregister_all(ctx)
CallDeregisterAll(t) ==
    /\ frame[t].pc = "idle"
    /\ frame' = [frame EXCEPT ![t] =
          [Idle EXCEPT !.op = "deregister_all", !.pc = "mlock"]]
    /\ UNCHANGED <<env, hotplug_drivers, lock>>

\* usbi_mutex_lock succeeds and the walk runs to its first callback
LockAndWalk(t) ==
    /\ frame[t].pc = "mlock"
    /\ lock = NoThread
    /\ Resume(t, [frame[t] EXCEPT !.it = 1, !.k = 1, !.di = 1,
                                  !.pre = hotplug_drivers],
              hotplug_drivers)
    /\ UNCHANGED env

\* the user callback returns r; the walk runs to its next callback
CallbackReturn(t, r) ==
    /\ frame[t].pc = "cb"
    /\ LET c == CurCall(frame[t])
           f == [frame[t] EXCEPT !.calls[Len(frame[t].calls)].r = r,
                                 !.calls[Len(frame[t].calls)].done = TRUE]
       IN /\ c.kind = "disconnect" => r = 0
          /\ Resume(t, FrameAfterCallback(f, c),
                    AfterCallback(f, hotplug_drivers, c, r))
    /\ UNCHANGED env

\* the user callback calls libusb_hotplug_register(ctx, d) or
\* libusb_hotplug_deregister(ctx, d), which reaches usbi_mutex_lock
CallbackReenter(t, inner, d) ==
    /\ frame[t].pc = "cb"
    /\ has_hotplug
    /\ inner = "register" => SaneValues(d)
    /\ frame' = [frame EXCEPT ![t].pc = "blocked", ![t].inner = inner]
    /\ UNCHANGED <<env, hotplug_drivers, lock>>

\* the caller takes the result
Return(t) ==
    /\ frame[t].pc = "ret"
    /\ frame' = [frame EXCEPT ![t] = Idle]
    /\ UNCHANGED <<env, hotplug_drivers, lock>>

(* The calls as Spec makes them: one at a time, usbi_hotplug_match on the
   event thread, the others on the client thread. *)
Dispatch(t, dev, event) ==
    t = EventThread /\ Quiet /\ CallMatch(t, dev, event)

Register(t, d, devs) ==
    t \in Clients /\ Quiet /\ CallRegister(t, d, devs)

Deregister(t, d) ==
    t \in Clients /\ Quiet /\ CallDeregister(t, d)

DeregisterAll(t) ==
    t \in Clients /\ Quiet /\ CallDeregisterAll(t)

(* ---------------------------- specification ---------------------------- *)
MainDrivers ==
    (1 :> [vid |-> 4660, pid |-> LIBUSB_HOTPLUG_MATCH_ANY,
           dev_class |-> LIBUSB_HOTPLUG_MATCH_ANY, flags |-> 0])
    @@ (2 :> [vid |-> LIBUSB_HOTPLUG_MATCH_ANY,
              pid |-> LIBUSB_HOTPLUG_MATCH_ANY,
              dev_class |-> LIBUSB_HOTPLUG_MATCH_ANY,
              flags |-> LIBUSB_HOTPLUG_ENUMERATE])
    @@ (3 :> [vid |-> 65536, pid |-> 1, dev_class |-> 9, flags |-> 0])

MainDescriptors ==
    ("A" :> [idVendor |-> 4660, idProduct |-> 1, bDeviceClass |-> 0])
    @@ ("B" :> [idVendor |-> 22136, idProduct |-> 1, bDeviceClass |-> 9])

Init ==
    /\ has_hotplug \in BOOLEAN
    /\ driver_table = MainDrivers
    /\ device_descriptor = MainDescriptors
    /\ hotplug_drivers = <<>>
    /\ lock = NoThread
    /\ frame = [t \in Threads |-> Idle]

Next ==
    \/ \E t \in Threads, dev \in Devices, event \in {ARRIVED, LEFT} :
          Dispatch(t, dev, event)
    \/ \E t \in Threads, d \in DriverIds \cup {NULL}, devs \in SUBSET Devices :
          Register(t, d, devs)
    \/ \E t \in Threads : RegisterAdd(t)
    \/ \E t \in Threads, d \in DriverIds \cup {NULL} : Deregister(t, d)
    \/ \E t \in Threads : DeregisterAll(t)
    \/ \E t \in Threads : LockAndWalk(t)
    \/ \E t \in Threads, r \in {0, 1} : CallbackReturn(t, r)
    \/ \E t \in Threads, inner \in {"register", "deregister"},
          d \in DriverIds : CallbackReenter(t, inner, d)
    \/ \E t \in Threads : Return(t)

Spec == Init /\ [][Next]_vars

(* A second specification for the filter: one filter and one device, their
   fields drawn from the ends of the legal ranges, the wildcard and the
   values in between; the filter is registered and the device arrives. *)
FilterDomain ==
    [vid : {LIBUSB_HOTPLUG_MATCH_ANY, 0, 4660, 65535},
     pid : {LIBUSB_HOTPLUG_MATCH_ANY, 0, 65535},
     dev_class : {LIBUSB_HOTPLUG_MATCH_ANY, 0, 255},
     flags : {0}]

DescriptorDomain ==
    [idVendor : {0, 4660, 22136, 65535},
     idProduct : {0, 65535},
     bDeviceClass : {0, 255}]

InitMatch ==
    /\ has_hotplug = TRUE
    /\ \E F \in FilterDomain : driver_table = [MainDrivers EXCEPT ![1] = F]
    /\ \E D \in DescriptorDomain :
          device_descriptor = [MainDescriptors EXCEPT !["A"] = D]
    /\ hotplug_drivers = <<>>
    /\ lock = NoThread
    /\ frame = [t \in Threads |-> Idle]

NextMatch ==
    \/ \E t \in Threads : Dispatch(t, "A", ARRIVED)
    \/ \E t \in Threads : Register(t, 1, {})
    \/ \E t \in Threads : RegisterAdd(t)
    \/ \E t \in Threads : LockAndWalk(t)
    \/ \E t \in Threads, r \in {0, 1} : CallbackReturn(t, r)
    \/ \E t \in Threads : Return(t)

SpecMatch == InitMatch /\ [][NextMatch]_vars

(* A third specification for the check for sane values: one driver, its
   fields drawn from both sides of the ends of the legal ranges, the
   wildcard and the ends of int; the driver, or NULL, is registered. *)
SaneDomain ==
    [vid : {-2147483647, -2, LIBUSB_HOTPLUG_MATCH_ANY, 0, 65535, 65536,
            2147483647},
     pid : {LIBUSB_HOTPLUG_MATCH_ANY, 0, 65535, 65536},
     dev_class : {-2, LIBUSB_HOTPLUG_MATCH_ANY, 0, 255, 256, 65535},
     flags : {0}]

InitSane ==
    /\ has_hotplug \in BOOLEAN
    /\ \E F \in SaneDomain : driver_table = [MainDrivers EXCEPT ![1] = F]
    /\ device_descriptor = MainDescriptors
    /\ hotplug_drivers = <<>>
    /\ lock = NoThread
    /\ frame = [t \in Threads |-> Idle]

NextSane ==
    \/ \E t \in Threads, d \in {1, 2, NULL} : Register(t, d, {})
    \/ \E t \in Threads : RegisterAdd(t)
    \/ \E t \in Threads : Return(t)

SpecSane == InitSane /\ [][NextSane]_vars

(* A fourth specification for concurrent use: one client thread calls
   libusb_hotplug_register, another libusb_hotplug_deregister, while the
   event thread calls usbi_hotplug_match for device A, in any interleaving
   of their steps; a callback may call back into the library. *)
NextConc ==
    \/ \E dev \in {"A"}, event \in {ARRIVED, LEFT} :
          CallMatch(EventThread, dev, event)
    \/ \E d \in {1, 2} : CallRegister("c1", d, {"A"})
    \/ \E t \in Threads : RegisterAdd(t)
    \/ \E d \in {1, 2} : CallDeregister("c2", d)
    \/ \E t \in Threads : LockAndWalk(t)
    \/ \E t \in Threads : CallbackReturn(t, 0)
    \/ \E t \in Threads, inner \in {"register", "deregister"},
          d \in {1, 2} : CallbackReenter(t, inner, d)
    \/ \E t \in Threads : Return(t)

InitConc ==
    /\ has_hotplug = TRUE
    /\ driver_table = MainDrivers
    /\ device_descriptor = MainDescriptors
    /\ hotplug_drivers = <<>>
    /\ lock = NoThread
    /\ frame = [t \in Threads |-> Idle]

SpecConc == InitConc /\ [][NextConc]_vars

(* ------------------------------ properties ----------------------------- *)
\* the call op of thread t has returned and t has not yet gone on
Returned(t, op) == frame[t].op = op /\ frame[t].pc = "ret"

\* how often the call of frame f entered the callback kind of entry n for dev
NCalls(f, kind, n, dev) ==
    Cardinality({j \in 1..Len(f.calls) :
        /\ f.calls[j].kind = kind
        /\ f.calls[j].node = n
        /\ f.calls[j].dev = dev})

\* the connect callback of entry n for dev was entered and returned 0
Accepted(f, n, dev) ==
    \E j \in 1..Len(f.calls) :
        /\ f.calls[j].kind = "connect" /\ f.calls[j].node = n
        /\ f.calls[j].dev = dev /\ f.calls[j].done /\ f.calls[j].r = 0

\* the attached set of an entry
Attached(e) == Range(e.device_list)

\* the filter F accepts the descriptor D: each field is the wildcard or equal
FilterAccepts(F, D) ==
    /\ F.vid = LIBUSB_HOTPLUG_MATCH_ANY \/ F.vid = D.idVendor
    /\ F.pid = LIBUSB_HOTPLUG_MATCH_ANY \/ F.pid = D.idProduct
    /\ F.dev_class = LIBUSB_HOTPLUG_MATCH_ANY \/ F.dev_class = D.bDeviceClass

\* the known devices the filter of driver d accepts
Matching(d, devs) ==
    {x \in devs : FilterAccepts(driver_table[d], device_descriptor[x])}

\* a successful libusb_hotplug_register with LIBUSB_HOTPLUG_ENUMERATE returned
RegisteredWithEnumerate(t) ==
    /\ Returned(t, "register")
    /\ frame[t].ret = LIBUSB_SUCCESS
    /\ FlagSet(driver_table[frame[t].driver].flags, LIBUSB_HOTPLUG_ENUMERATE)

\* C1 (as claimed): when usbi_hotplug_match(D, LEFT) returns, every entry
\* that had D attached got exactly one disconnect for D and no longer has D,
\* and every entry that did not have D got no callback and is unchanged (so a
\* second LEFT does nothing).
C1_LeftExactlyOnce ==
    \A t \in Threads :
        (Returned(t, "match") /\ frame[t].event = LEFT) =>
            LET f == frame[t]
                D == Head(f.enum)
            IN \A i \in 1..Len(f.pre) :
                 IF D \in Attached(f.pre[i])
                 THEN /\ NCalls(f, "disconnect", i, D) = 1
                      /\ D \notin Attached(hotplug_drivers[i])
                 ELSE /\ NCalls(f, "disconnect", i, D) = 0
                      /\ hotplug_drivers[i] = f.pre[i]

\* C2 (as claimed): during libusb_hotplug_register every callback is a
\* callback of the new entry (the head of the list), and no other entry's
\* device list changes.
C2_ReplayOnlyNewEntry ==
    \A t \in Threads :
        frame[t].op = "register" =>
            /\ \A j \in 1..Len(frame[t].calls) : frame[t].calls[j].node = 1
            /\ \A i \in 2..Len(frame[t].pre) :
                   hotplug_drivers[i] = frame[t].pre[i]

\* C3 (as claimed): a register with the enumerate flag and N known devices
\* that its filter accepts calls connect of the new entry exactly once for
\* each of the N devices, and the new entry's attached list then holds
\* exactly those N devices.
C3_ReplayAttachesAll ==
    \A t \in Threads :
        RegisteredWithEnumerate(t) =>
            LET f == frame[t]
                M == Matching(f.driver, f.usb_devs)
            IN /\ \A x \in Devices :
                     NCalls(f, "connect", 1, x) = IF x \in M THEN 1 ELSE 0
               /\ Attached(hotplug_drivers[1]) = M
               /\ Len(hotplug_drivers[1].device_list) = Cardinality(M)

\* C3 (amended): such a register calls connect of the new entry exactly once
\* for each of the N devices, and the new entry's attached list then holds,
\* once each, exactly those of the N devices whose connect returned 0.
C3_ReplayAttachesAccepted ==
    \A t \in Threads :
        RegisteredWithEnumerate(t) =>
            LET f == frame[t]
                M == Matching(f.driver, f.usb_devs)
            IN /\ \A x \in Devices :
                     NCalls(f, "connect", 1, x) = IF x \in M THEN 1 ELSE 0
               /\ \A x \in Devices :
                     Count(hotplug_drivers[1].device_list, x) =
                        IF x \in M /\ Accepted(f, 1, x) THEN 1 ELSE 0

\* C3 witness: a replay over two accepted devices, one connect returned 0
\* and the other did not
C3_Witness ==
    \E t \in Threads :
        /\ RegisteredWithEnumerate(t)
        /\ Cardinality(Matching(frame[t].driver, frame[t].usb_devs)) = 2
        /\ Len(hotplug_drivers[1].device_list) = 1

C5_NoLockInCallback ==
    \A t \in Threads : frame[t].pc = "cb" => lock # t

\* C6 (as claimed): a register or deregister call made from inside a callback
\* of a dispatch can take the mutex: it never waits for a mutex that its own
\* thread holds.
C6_ReentrantCallProceeds ==
    \A t \in Threads :
        (frame[t].op = "match" /\ frame[t].pc = "blocked") => lock # t

C8_TeardownEmptiesRegistry ==
    \A t \in Threads :
        Returned(t, "deregister_all") => hotplug_drivers = <<>>

\* C9 (as claimed): when libusb_hotplug_deregister returns, every device
\* attached to an entry of that driver got exactly one disconnect, and no
\* entry of that driver is left in the registry.
C9_DeregisterOncePerDevice ==
    \A t \in Threads :
        (Returned(t, "deregister") /\ has_hotplug) =>
            LET f == frame[t]
            IN /\ \A i \in 1..Len(f.pre) :
                     f.pre[i].driver = f.driver =>
                        \A x \in Attached(f.pre[i]) :
                            NCalls(f, "disconnect", i, x) = 1
               /\ \A j \in 1..Len(hotplug_drivers) :
                     hotplug_drivers[j].driver # f.driver

\* C10: when usbi_hotplug_match(D, ARRIVED) returns, it has called the
\* connect callback of an entry (once) if and only if each of vid, pid and
\* dev_class of the entry's filter is the wildcard or equals D's descriptor
\* field.
C10_ConnectIffFilterAccepts ==
    \A t \in Threads :
        (Returned(t, "match") /\ frame[t].event = ARRIVED) =>
            LET f == frame[t]
                D == Head(f.enum)
            IN \A i \in 1..Len(f.pre) :
                 NCalls(f, "connect", i, D) =
                    IF FilterAccepts(driver_table[f.pre[i].driver],
                                     device_descriptor[D])
                    THEN 1 ELSE 0

\* C10 witness: an arrival returned that called connect of an entry whose
\* filter names the vendor and the class and leaves the product open
C10_Witness ==
    \E t \in Threads :
        /\ Returned(t, "match") /\ frame[t].event = ARRIVED
        /\ Len(frame[t].pre) >= 1
        /\ driver_table[frame[t].pre[1].driver].vid = 4660
        /\ driver_table[frame[t].pre[1].driver].pid = LIBUSB_HOTPLUG_MATCH_ANY
        /\ driver_table[frame[t].pre[1].driver].dev_class = 255
        /\ NCalls(frame[t], "connect", 1, Head(frame[t].enum)) = 1

\* a field value is legal: within 0..max
InRange(v, max) == v >= 0 /\ v <= max

\* every field of the filter is the wildcard or legal: vid and pid 16 bit,
\* dev_class 8 bit
FilterLegal(F) ==
    /\ F.vid = LIBUSB_HOTPLUG_MATCH_ANY \/ InRange(F.vid, 65535)
    /\ F.pid = LIBUSB_HOTPLUG_MATCH_ANY \/ InRange(F.pid, 65535)
    /\ F.dev_class = LIBUSB_HOTPLUG_MATCH_ANY \/ InRange(F.dev_class, 255)

\* C11: a libusb_hotplug_register called without the hotplug capability
\* never gets as far as malloc or the list: it returns
\* LIBUSB_ERROR_NOT_SUPPORTED, has called no callback, and the list of
\* entries with their device lists is as it was when the call started.
C11_UnsupportedRegister ==
    \A t \in Threads :
        (frame[t].op = "register" /\ ~has_hotplug) =>
            /\ frame[t].pc = "ret"
            /\ frame[t].ret = LIBUSB_ERROR_NOT_SUPPORTED
            /\ frame[t].calls = <<>>
            /\ hotplug_drivers = frame[t].pre

\* C11 witness: without the capability, a register of a valid driver with
\* the enumerate flag, two devices known, has returned
C11_Witness ==
    \E t \in Threads :
        /\ ~has_hotplug
        /\ Returned(t, "register")
        /\ frame[t].driver = 2
        /\ frame[t].usb_devs = Devices

\* C12: with the capability, libusb_hotplug_register of a driver returns
\* LIBUSB_ERROR_INVALID_PARAM exactly when a field of the filter is neither
\* the wildcard nor legal (vid, pid in 0..0xFFFF, dev_class in 0..0xFF);
\* then the list is as it was when the call started; a filter of legal
\* fields is not refused: the call allocates, and if malloc succeeds it
\* returns LIBUSB_SUCCESS with the driver's entry at the head of the list.
C12_InvalidParamIffOutOfRange ==
    \A t \in Threads :
        (frame[t].op = "register" /\ has_hotplug /\ frame[t].driver # NULL) =>
            LET f == frame[t]
            IN IF FilterLegal(driver_table[f.driver])
               THEN /\ f.ret \in {LIBUSB_SUCCESS, LIBUSB_ERROR_NO_MEM}
                    /\ (f.pc = "ret" /\ f.ret = LIBUSB_SUCCESS) =>
                          /\ Len(hotplug_drivers) = Len(f.pre)
                          /\ hotplug_drivers[1].driver = f.driver
               ELSE /\ f.pc = "ret"
                    /\ f.ret = LIBUSB_ERROR_INVALID_PARAM
                    /\ f.calls = <<>>
                    /\ hotplug_drivers = f.pre

\* C12 witness: a register whose only illegal field is dev_class = 0x100
\* returned, after an earlier register put an entry into the list
C12_Witness ==
    \E t \in Threads :
        /\ has_hotplug
        /\ Returned(t, "register")
        /\ frame[t].driver = 1
        /\ driver_table[1].dev_class = 256
        /\ InRange(driver_table[1].vid, 65535)
        /\ driver_table[1].pid = LIBUSB_HOTPLUG_MATCH_ANY
        /\ frame[t].ret = LIBUSB_ERROR_INVALID_PARAM
        /\ Len(hotplug_drivers) = 1

\* the driver d has an entry in the list
Registered(list, d) == \E i \in 1..Len(list) : list[i].driver = d

\* C13: a libusb_hotplug_deregister of a driver that has no entry in the
\* list, or called without the hotplug capability, does nothing: from its
\* start to its return it calls no callback, the list of entries with their
\* device lists stays as it was, and it leaves the mutex free.
C13_DeregisterUnknownNoOp ==
    \A t \in Threads :
        (/\ frame[t].op = "deregister"
         /\ ~has_hotplug \/ ~Registered(frame[t].pre, frame[t].driver)) =>
            /\ frame[t].calls = <<>>
            /\ hotplug_drivers = frame[t].pre
            /\ frame[t].pc \in {"mlock", "ret"}
            /\ frame[t].pc = "ret" => lock = NoThread

\* C13 witness: a deregister of a driver without an entry returned while
\* the list holds an entry of another driver with an attached device
C13_Witness ==
    \E t \in Threads :
        /\ Returned(t, "deregister")
        /\ has_hotplug
        /\ frame[t].driver \in DriverIds
        /\ ~Registered(frame[t].pre, frame[t].driver)
        /\ Len(hotplug_drivers) >= 1
        /\ hotplug_drivers[1].device_list # <<>>

\* every step that is left is a wait for the mutex: no thread is inside a
\* callback, and a thread that is about to take the mutex finds it taken
Stalled ==
    \A t \in Threads :
        /\ frame[t].pc # "cb"
        /\ frame[t].pc \in {"lock", "mlock"} => lock # NoThread

\* C14 (as claimed): in every interleaving of the calls of the client
\* threads and the event thread, callbacks that call back into the library
\* included, (a) a thread whose loop stands on a node of the list (it, next,
\* device_node) owns the mutex, so that no other thread unlinks or frees a
\* node under it or frees it again, and (b) every call ends: when nothing
\* is left to run but waits for the mutex, every call has returned and the
\* mutex is free, so every entry is in the list and open to the next
\* dispatch, or unlinked and freed.
C14_ConcurrentCallsSafeAndEnd ==
    /\ \A t \in Threads : frame[t].pc \in {"cb", "blocked"} => lock = t
    /\ Stalled =>
          /\ \A t \in Threads : frame[t].pc \in {"idle", "ret"}
          /\ lock = NoThread

\* a usbi_hotplug_match(D, event) of the event layer is running
Dispatching(D, event) ==
    \E t \in Threads :
        /\ frame[t].op = "match" /\ frame[t].pc # "idle"
        /\ frame[t].event = event /\ Head(frame[t].enum) = D

\* the replay of a libusb_hotplug_register is running: the simulated
\* arrivals for the entry it added, the head of the list
Replaying(D) ==
    \E t \in Threads :
        /\ frame[t].op = "register" /\ frame[t].pc \in {"mlock", "cb"}
        /\ Head(frame[t].enum) = D

\* the entry e is being destroyed by a libusb_hotplug_deregister
Destroying(e) ==
    \E t \in Threads :
        /\ frame[t].op = "deregister" /\ frame[t].pc # "idle"
        /\ frame[t].driver = e.driver

\* C15 (as claimed): a device D is in the attached set of an entry E exactly
\* when the most recent dispatch for D under E's filter was an arrival that
\* E took (its filter accepts D and connect returned 0), not yet followed
\* by a LEFT dispatch for D or by the destruction of E.  Step by step, for
\* an entry that stays in the list: D enters the set of E only by a
\* dispatch (D, ARRIVED), or by the replay of the register that created E;
\* D leaves it only by a dispatch (D, LEFT) or while a deregister destroys
\* E; and when a dispatch returns, D is in the set of every entry that took
\* the arrival, and in no set after LEFT.
C15_AttachedIffLastArrived ==
    /\ [][Len(hotplug_drivers') = Len(hotplug_drivers) =>
            \A i \in 1..Len(hotplug_drivers) : \A D \in Devices :
               /\ (D \notin Attached(hotplug_drivers[i])
                   /\ D \in Attached(hotplug_drivers'[i])) =>
                      \/ Dispatching(D, ARRIVED)
                      \/ i = 1 /\ Replaying(D)
               /\ (D \in Attached(hotplug_drivers[i])
                   /\ D \notin Attached(hotplug_drivers'[i])) =>
                      \/ Dispatching(D, LEFT)
                      \/ Destroying(hotplug_drivers[i])]_vars
    /\ [](\A t \in Threads :
            Returned(t, "match") =>
               \A i \in 1..Len(hotplug_drivers) :
                  LET D == Head(frame[t].enum)
                  IN IF frame[t].event = ARRIVED
                     THEN Accepted(frame[t], i, D) =>
                             D \in Attached(hotplug_drivers[i])
                     ELSE D \notin Attached(hotplug_drivers[i]))

\* C16 (as claimed): a dispatch visits the entries in the order of their
\* registration.  The loop of usbi_hotplug_match calls the callbacks of the
\* entries in the order of the list, from head->next on; so the claim says
\* that a libusb_hotplug_register puts its entry behind every entry that is
\* already in the list (these keep their places, the new entry is visited
\* last).
C16_VisitedInRegistrationOrder ==
    /\ [](\A t \in Threads :
            frame[t].op = "match" =>
               \A j, k \in 1..Len(frame[t].calls) :
                  j < k => frame[t].calls[j].node <= frame[t].calls[k].node)
    /\ [][\A t \in Threads :
            (/\ frame[t].op = "register" /\ frame[t].pc = "lock"
             /\ frame'[t].pc # "lock") =>
               /\ Len(hotplug_drivers') = Len(hotplug_drivers) + 1
               /\ \A i \in 1..Len(hotplug_drivers) :
                     hotplug_drivers'[i] = hotplug_drivers[i]]_vars

\* the device_list nodes of all entries, in one sequence
RECURSIVE AllNodes(_)
AllNodes(list) ==
    IF list = <<>> THEN <<>>
    ELSE Head(list).device_list \o AllNodes(Tail(list))

\* in this step the callback kind of the entry at place i returns for D
Returning(kind, i, D) ==
    \E t \in Threads :
        /\ frame[t].pc = "cb" /\ frame[t].it = i
        /\ CurCall(frame[t]).kind = kind /\ CurCall(frame[t]).dev = D
        /\ frame'[t].calls[Len(frame[t].calls)].done

\* in this step connect of the entry at place i returns 0 for D
ReturningSuccess(i, D) ==
    \E t \in Threads :
        /\ frame[t].pc = "cb" /\ frame[t].it = i
        /\ CurCall(frame[t]).kind = "connect" /\ CurCall(frame[t]).dev = D
        /\ frame'[t].calls[Len(frame[t].calls)].done
        /\ frame'[t].calls[Len(frame[t].calls)].r = 0

\* C17: the device_list nodes of an entry are its connect calls that
\* returned 0 and have not been answered by a disconnect, and every
\* disconnect answers one of them.  An entry gets a node for D only when its
\* connect for D returns 0, one node per call; while a disconnect for D of
\* an entry runs (in usbi_hotplug_match for LEFT, libusb_hotplug_deregister
\* or usbi_hotplug_deregister_all) the entry holds a node for D; the return
\* of that disconnect takes exactly one node for D from the entry, and
\* nothing else takes a node away (an entry that is unlinked has none left).
C17_DisconnectAnswersConnect ==
    /\ [](\A t \in Threads :
            (frame[t].pc \in {"cb", "blocked"}
             /\ CurCall(frame[t]).kind = "disconnect") =>
               Count(hotplug_drivers[frame[t].it].device_list,
                     CurCall(frame[t]).dev) >= 1)
    /\ [][\A D \in Devices :
            /\ Len(hotplug_drivers') = Len(hotplug_drivers) =>
                  \A i \in 1..Len(hotplug_drivers) :
                     LET n == Count(hotplug_drivers[i].device_list, D)
                         m == Count(hotplug_drivers'[i].device_list, D)
                     IN /\ m > n => m = n + 1 /\ ReturningSuccess(i, D)
                        /\ m < n => m = n - 1 /\ Returning("disconnect", i, D)
            /\ Len(hotplug_drivers') # Len(hotplug_drivers) =>
                  LET n == Count(AllNodes(hotplug_drivers), D)
                      m == Count(AllNodes(hotplug_drivers'), D)
                  IN /\ m <= n
                     /\ m < n => /\ m = n - 1
                                 /\ \E i \in 1..Len(hotplug_drivers) :
                                       Returning("disconnect", i, D)]_vars

\* C17 witness: the second disconnect of a libusb_hotplug_deregister runs,
\* for an entry that still holds a node for the device
C17_Witness ==
    \E t \in Threads :
        /\ frame[t].op = "deregister" /\ frame[t].pc = "cb"
        /\ Len(frame[t].calls) = 2
        /\ CurCall(frame[t]).kind = "disconnect"
        /\ CurCall(frame[t]).dev
              \in Attached(hotplug_drivers[frame[t].it])

\* connect of the entry at place n returned non-zero in call j of frame f
FailedConnect(f, j) ==
    /\ f.calls[j].kind = "connect" /\ f.calls[j].done /\ f.calls[j].r # 0

\* C18 (as claimed): when connect of an entry returns non-zero for D in a
\* usbi_hotplug_match(D, ARRIVED), D is not linked into the entry's device
\* list, and the entry gets no callback from the usbi_hotplug_match calls
\* that follow (here: those for the next devices of the same replay).
C18_FailedConnectEndsCallbacks ==
    \A t \in Threads :
        \A j \in 1..Len(frame[t].calls) :
            FailedConnect(frame[t], j) =>
               /\ Returned(t, "match") =>
                     hotplug_drivers[frame[t].calls[j].node] =
                        frame[t].pre[frame[t].calls[j].node]
               /\ \A k \in (j + 1)..Len(frame[t].calls) :
                     frame[t].calls[k].node # frame[t].calls[j].node

\* C18 (amended): a connect that returns non-zero changes nothing in the
\* list: D is not linked, the entry stays where it is, nothing is marked;
\* and the entry goes on getting callbacks: when the replay of a
\* libusb_hotplug_register has returned, connect of every entry of the list
\* has been called once for every replayed device its filter accepts,
\* whatever its earlier connect calls returned.
C18_FailedConnectOnlySkips ==
    /\ [][\A i \in 1..Len(hotplug_drivers) : \A D \in Devices :
            (Returning("connect", i, D) /\ ~ReturningSuccess(i, D)) =>
               hotplug_drivers' = hotplug_drivers]_vars
    /\ [](\A t \in Threads :
            RegisteredWithEnumerate(t) =>
               \A n \in 1..Len(frame[t].pre) : \A x \in frame[t].usb_devs :
                  FilterAccepts(driver_table[frame[t].pre[n].driver],
                                device_descriptor[x]) =>
                     NCalls(frame[t], "connect", n, x) = 1)

\* C18 witness: a replay over A and B returned; connect of the new entry
\* returned non-zero for A and was called again for B, which it took
C18_Witness ==
    \E t \in Threads :
        /\ RegisteredWithEnumerate(t)
        /\ Len(frame[t].calls) >= 2
        /\ FailedConnect(frame[t], 1)
        /\ frame[t].calls[1].node = 1 /\ frame[t].calls[1].dev = "A"
        /\ Accepted(frame[t], 1, "B")
        /\ hotplug_drivers[1].device_list = <<"B">>

\* C19 (as claimed): the device list of an entry never holds two nodes for
\* the same device.
C19_NoDuplicateNodes ==
    \A i \in 1..Len(hotplug_drivers) : \A D \in Devices :
        Count(hotplug_drivers[i].device_list, D) <= 1

\* C20: when libusb_hotplug_deregister(driver) returns, no entry of the list
\* has that driver pointer, however often it was registered; the entries of
\* the other drivers are all there, in their order, with their device lists
\* as they were; and every callback of the call was a disconnect of an
\* entry that had that driver pointer.
C20_DeregisterRemovesAllOfDriver ==
    \A t \in Threads :
        (Returned(t, "deregister") /\ has_hotplug) =>
            LET f == frame[t]
                others == {i \in 1..Len(f.pre) : f.pre[i].driver # f.driver}
            IN /\ ~Registered(hotplug_drivers, f.driver)
               /\ Len(hotplug_drivers) = Cardinality(others)
               /\ \A i \in others :
                     hotplug_drivers[Cardinality({j \in others : j <= i})]
                        = f.pre[i]
               /\ \A j \in 1..Len(f.calls) :
                     /\ f.calls[j].kind = "disconnect"
                     /\ f.calls[j].node \notin others

\* C20 witness: a deregister returned that found the driver registered twice,
\* with a device attached, and removed both entries
C20_Witness ==
    \E t \in Threads :
        /\ Returned(t, "deregister")
        /\ Len(frame[t].pre) = 2
        /\ frame[t].pre[1].driver = frame[t].driver
        /\ frame[t].pre[2].driver = frame[t].driver
        /\ Len(frame[t].calls) >= 1
        /\ hotplug_drivers = <<>>

TypeOK ==
    /\ lock \in Threads \cup {NoThread}
    /\ Len(hotplug_drivers) <= MaxNodes

====
